---- MODULE Spec2Model ----
(***************************************************************************)
(* logging_py3: configuration resolution (_get_config), the sender         *)
(* (update_config), and the runtime listener (listen / stop_listen) that   *)
(* the package starts on top of the standard library's logging.config.     *)
(*                                                                         *)
(* Python dicts are TLA+ functions from key strings to values.  Python's   *)
(* None inside a dict is the record NoneV.  Dict iteration order is        *)
(* abstracted to the fixed order NameOrder.                                *)
(***************************************************************************)
EXTENDS Integers, Sequences, FiniteSets, TLC

VARIABLES
    source,      \* the argument handed to _get_config / setup_logging
    environ,     \* os.environ restricted to LOG_CONFIG
    resolved,    \* outcome of the first _get_config call
    again,       \* outcome of _get_config applied to that outcome's document
    pcR,         \* position of the resolving caller
    ucArgs,      \* update_config: the arguments of the call
    ucPc,        \* update_config: position in the function
    ucConfig,    \* update_config: the local `config`
    ucPort,      \* update_config: the local `listen_port` after line 116
    asked,       \* update_config: _query_yes_no was called
    answer,      \* update_config: what _query_yes_no returned
    sock,        \* update_config: the socket `s`
    wire,        \* the bytes the connection has accepted from the sender
    ucResult,    \* update_config: how the call ended
    engine,      \* the logging state of the listening process
    lstate,      \* whether that process runs a config listener
    conns,       \* the connections of the listener and their handler threads
    applied,     \* the last dictConfig call of the listening process
    setups,      \* the setup_logging calls the listening process has made
    threads,     \* the listener threads listen() has created
    glistener,   \* logging.config._listener, the server stopListening aborts
    hooks,       \* the handles registered with atexit, in order
    held,        \* the handles listen() has returned to the application
    stopper,     \* the stop_listen call of the main thread
    returned,    \* the handles for which a stop_listen call has returned
    main,        \* the main thread: running, or the interpreter is exiting
    callerMap,   \* the caller's mapping object: as given, and as it is now
    docs         \* which objects the _get_config calls returned, in order

resolveVars == <<source, environ, resolved, again, pcR>>

sendVars == <<ucArgs, ucPc, ucConfig, ucPort, asked, answer, sock, wire, ucResult>>

listenVars == <<engine, lstate, conns, applied, setups>>

stopVars == <<threads, glistener, hooks, held, stopper, returned, main>>

heapVars == <<callerMap, docs>>

vars == <<resolveVars, sendVars, listenVars, stopVars, heapVars>>

----------------------------------------------------------------------------
(* dict primitives *)

EmptyDict == << >>

Has(d, k) == k \in DOMAIN d

\* dict.setdefault(k, v)
SetDefault(d, k, v) == IF Has(d, k) THEN d ELSE d @@ (k :> v)

\* dict.pop(k, default): the dict that is left
PopRest(d, k) == [x \in (DOMAIN d) \ {k} |-> d[x]]

\* dict.pop(k, default) / dict.get(k, default): the value
GetOr(d, k, default) == IF Has(d, k) THEN d[k] ELSE default

\* d[k] = v
Put(d, k, v) == [x \in (DOMAIN d) \cup {k} |-> IF x = k THEN v ELSE d[x]]

NoneV == [none |-> TRUE]

----------------------------------------------------------------------------
(* names *)

\* number of caller-defined handler names the documents draw from
MaxExtraHandlers == 1

ExtraHandlerPool == <<"h1", "h2", "h3">>

ExtraHandlers == {ExtraHandlerPool[i] : i \in 1..MaxExtraHandlers}

\* the fixed iteration order of handler names
NameOrder == <<"h1", "h2", "h3", "console">>

RECURSIVE InOrder(_, _)
InOrder(names, i) ==
    IF i > Len(NameOrder) THEN << >>
    ELSE (IF NameOrder[i] \in names THEN <<NameOrder[i]>> ELSE << >>)
         \o InOrder(names, i + 1)

\* list(keys) of a dict of handlers
KeyList(names) == InOrder(names, 1)

----------------------------------------------------------------------------
(* _get_config *)

DEFAULT_LOG_FORMAT == "{asctime} {levelname:3.3} {name}: {message}"

default_formatter(default_log_format) ==
    [format |-> default_log_format,
     class  |-> "logging_py3.colored_formatter.ColoredFormatter",
     style  |-> "{"]

default_handler ==
    [level     |-> "DEBUG",
     class     |-> "logging.StreamHandler",
     formatter |-> "default",
     stream    |-> "ext://sys.stdout"]

\* the list without the `is not None` filter
default_handlersUnfiltered(handlers) == KeyList(DOMAIN handlers)

\* [handler for handler in config['handlers'].keys()
\*          if config['handlers'][handler] is not None]
default_handlers(handlers) ==
    KeyList({h \in DOMAIN handlers : handlers[h] # NoneV})

default_logger(default_log_level, handlers) ==
    [level |-> default_log_level, handlers |-> default_handlers(handlers)]

\* the files of the file system and their contents
FileSystem ==
    ("/etc/log.yml"  :> "handlers: {console: null}") @@
    ("/etc/log.json" :> "{\"default_log_level\": \"INFO\", \"listen\": 9021}") @@
    ("/etc/motd"     :> "hello")

\* yaml.safe_load: the value a text denotes.  kind "map" is a mapping,
\* kind "scalar" any other YAML value, kind "error" a text that does not parse.
safe_load(text) ==
    CASE text = "{}" -> [kind |-> "map", map |-> EmptyDict]
      [] text = "handlers: {console: null}" ->
            [kind |-> "map", map |-> ("handlers" :> ("console" :> NoneV))]
      [] text = "{\"default_log_level\": \"INFO\", \"listen\": 9021}" ->
            [kind |-> "map",
             map  |-> ("default_log_level" :> "INFO") @@
                      ("listen" :> [t |-> "int", v |-> 9021])]
      [] text = "loggers: {root: {level: ERROR}}" ->
            [kind |-> "map",
             map  |-> ("loggers" :> ("root" :> [level |-> "ERROR"]))]
      [] text = "{\"disable_existing_loggers\": true}" ->
            [kind |-> "map", map |-> ("disable_existing_loggers" :> TRUE)]
      [] text = "{unclosed" -> [kind |-> "error"]
      [] OTHER -> [kind |-> "scalar"]

\* line 193: config['handlers'].setdefault('console', default_handler)
InjectConsoleOverwrite(handlers) == Put(handlers, "console", default_handler)

InjectConsole(handlers) == SetDefault(handlers, "console", default_handler)

\* line 201: config['formatters'].setdefault('default', default_formatter)
InjectFormatter(formatters, default_log_format) ==
    SetDefault(formatters, "default", default_formatter(default_log_format))

\* lines 204-206: the root logger is injected unless '' or 'root' is registered
InjectRootAssign(loggers, default_log_level, handlers) ==
    Put(loggers, "root", default_logger(default_log_level, handlers))

InjectRoot(loggers, default_log_level, handlers) ==
    LET registered_loggers == DOMAIN loggers
    IN  IF ~ ("" \in registered_loggers \/ "root" \in registered_loggers)
        THEN SetDefault(loggers, "root",
                        default_logger(default_log_level, handlers))
        ELSE loggers

\* lines 164-208: the defaults injected into a mapping; a 'handlers',
\* 'formatters' or 'loggers' entry that is None has no setdefault / keys
InjectDefaults(config0) ==
    LET c1 == SetDefault(config0, "version", 1)
        c2 == SetDefault(c1, "disable_existing_loggers", FALSE)
        c3 == SetDefault(c2, "formatters", EmptyDict)
        c4 == SetDefault(c3, "handlers", EmptyDict)
        c5 == SetDefault(c4, "loggers", EmptyDict)
        default_log_format == GetOr(c5, "default_log_format", DEFAULT_LOG_FORMAT)
        c6 == PopRest(c5, "default_log_format")
        default_log_level == GetOr(c6, "default_log_level", "DEBUG")
        c7 == PopRest(c6, "default_log_level")
    IN  IF c7["handlers"] = NoneV \/ c7["formatters"] = NoneV \/ c7["loggers"] = NoneV
        THEN [kind |-> "raise", exc |-> "AttributeError"]
        ELSE
        LET handlers == InjectConsole(c7["handlers"])
            c8 == Put(c7, "handlers", handlers)
            c9 == Put(c8, "formatters",
                      InjectFormatter(c8["formatters"], default_log_format))
            c10 == Put(c9, "loggers",
                       InjectRoot(c9["loggers"], default_log_level, handlers))
        IN  [kind |-> "ok", config |-> SetDefault(c10, "show_warnings", TRUE)]

\* line 144: config = path_or_dict.  The setdefaults, pops and item
\* assignments of lines 164-208 act on the caller's mapping itself: what it
\* holds when _get_config returns or raises
MappingAfter(config0) ==
    LET c1 == SetDefault(config0, "version", 1)
        c2 == SetDefault(c1, "disable_existing_loggers", FALSE)
        c3 == SetDefault(c2, "formatters", EmptyDict)
        c4 == SetDefault(c3, "handlers", EmptyDict)
        c5 == SetDefault(c4, "loggers", EmptyDict)
        default_log_format == GetOr(c5, "default_log_format", DEFAULT_LOG_FORMAT)
        c7 == PopRest(PopRest(c5, "default_log_format"), "default_log_level")
        c8 == Put(c7, "handlers", InjectConsole(c7["handlers"]))
        c9 == Put(c8, "formatters",
                  InjectFormatter(c8["formatters"], default_log_format))
    IN  IF InjectDefaults(config0).kind = "ok" THEN InjectDefaults(config0).config
        ELSE IF c7["handlers"] = NoneV THEN c7
        ELSE IF c8["formatters"] = NoneV THEN c8
        ELSE c9

\* lines 140-162: what the source denotes; kind "raise" is an exception
LoadSource(src, env) ==
    LET path_or_dict == IF src.kind = "none" THEN env ELSE src
    IN  CASE path_or_dict.kind = "dict" -> [kind |-> "map", map |-> path_or_dict.dict]
          [] path_or_dict.kind = "str" ->
                LET text == IF path_or_dict.text \in DOMAIN FileSystem
                            THEN FileSystem[path_or_dict.text]
                            ELSE path_or_dict.text
                    loaded == safe_load(text)
                IN  CASE loaded.kind = "map"    -> loaded
                      [] loaded.kind = "scalar" -> [kind |-> "raise", exc |-> "ValueError"]
                      [] OTHER                  -> [kind |-> "raise", exc |-> "YAMLError"]
          [] path_or_dict.kind = "none" -> [kind |-> "map", map |-> EmptyDict]
          [] OTHER -> [kind |-> "raise", exc |-> "ValueError"]

_get_config(src, env) ==
    LET loaded == LoadSource(src, env)
    IN  IF loaded.kind = "map" THEN InjectDefaults(loaded.map) ELSE loaded

----------------------------------------------------------------------------
(* json.dumps(config).encode('utf-8') *)

\* str.encode('utf-8') of the strings the documents are made of
Utf8(s) ==
    CASE s = "version" -> <<118, 101, 114, 115, 105, 111, 110>>
      [] s = "disable_existing_loggers" -> <<100, 105, 115, 97, 98, 108, 101, 95, 101, 120, 105, 115, 116, 105, 110, 103, 95, 108, 111, 103, 103, 101, 114, 115>>
      [] s = "incremental" -> <<105, 110, 99, 114, 101, 109, 101, 110, 116, 97, 108>>
      [] s = "show_warnings" -> <<115, 104, 111, 119, 95, 119, 97, 114, 110, 105, 110, 103, 115>>
      [] s = "formatters" -> <<102, 111, 114, 109, 97, 116, 116, 101, 114, 115>>
      [] s = "handlers" -> <<104, 97, 110, 100, 108, 101, 114, 115>>
      [] s = "loggers" -> <<108, 111, 103, 103, 101, 114, 115>>
      [] s = "tracemalloc" -> <<116, 114, 97, 99, 101, 109, 97, 108, 108, 111, 99>>
      [] s = "sentry_config" -> <<115, 101, 110, 116, 114, 121, 95, 99, 111, 110, 102, 105, 103>>
      [] s = "format" -> <<102, 111, 114, 109, 97, 116>>
      [] s = "class" -> <<99, 108, 97, 115, 115>>
      [] s = "style" -> <<115, 116, 121, 108, 101>>
      [] s = "level" -> <<108, 101, 118, 101, 108>>
      [] s = "formatter" -> <<102, 111, 114, 109, 97, 116, 116, 101, 114>>
      [] s = "stream" -> <<115, 116, 114, 101, 97, 109>>
      [] s = "console" -> <<99, 111, 110, 115, 111, 108, 101>>
      [] s = "h1" -> <<104, 49>>
      [] s = "h2" -> <<104, 50>>
      [] s = "h3" -> <<104, 51>>
      [] s = "default" -> <<100, 101, 102, 97, 117, 108, 116>>
      [] s = "root" -> <<114, 111, 111, 116>>
      [] s = "" -> <<>>
      [] s = "app" -> <<97, 112, 112>>
      [] s = "app.db" -> <<97, 112, 112, 46, 100, 98>>
      [] s = "DEBUG" -> <<68, 69, 66, 85, 71>>
      [] s = "INFO" -> <<73, 78, 70, 79>>
      [] s = "WARNING" -> <<87, 65, 82, 78, 73, 78, 71>>
      [] s = "ERROR" -> <<69, 82, 82, 79, 82>>
      [] s = "CRITICAL" -> <<67, 82, 73, 84, 73, 67, 65, 76>>
      [] s = "BOGUS" -> <<66, 79, 71, 85, 83>>
      [] s = "{asctime} {levelname:3.3} {name}: {message}" -> <<123, 97, 115, 99, 116, 105, 109, 101, 125, 32, 123, 108, 101, 118, 101, 108, 110, 97, 109, 101, 58, 51, 46, 51, 125, 32, 123, 110, 97, 109, 101, 125, 58, 32, 123, 109, 101, 115, 115, 97, 103, 101, 125>>
      [] s = "{message}" -> <<123, 109, 101, 115, 115, 97, 103, 101, 125>>
      [] s = "{" -> <<123>>
      [] s = "logging_py3.colored_formatter.ColoredFormatter" -> <<108, 111, 103, 103, 105, 110, 103, 95, 112, 121, 51, 46, 99, 111, 108, 111, 114, 101, 100, 95, 102, 111, 114, 109, 97, 116, 116, 101, 114, 46, 67, 111, 108, 111, 114, 101, 100, 70, 111, 114, 109, 97, 116, 116, 101, 114>>
      [] s = "logging.StreamHandler" -> <<108, 111, 103, 103, 105, 110, 103, 46, 83, 116, 114, 101, 97, 109, 72, 97, 110, 100, 108, 101, 114>>
      [] s = "logging.Formatter" -> <<108, 111, 103, 103, 105, 110, 103, 46, 70, 111, 114, 109, 97, 116, 116, 101, 114>>
      [] s = "ext://sys.stdout" -> <<101, 120, 116, 58, 47, 47, 115, 121, 115, 46, 115, 116, 100, 111, 117, 116>>
      [] s = "ext://sys.stderr" -> <<101, 120, 116, 58, 47, 47, 115, 121, 115, 46, 115, 116, 100, 101, 114, 114>>
      [] s = "true" -> <<116, 114, 117, 101>>
      [] s = "false" -> <<102, 97, 108, 115, 101>>
      [] s = "null" -> <<110, 117, 108, 108>>

JStr(s) == <<34>> \o Utf8(s) \o <<34>>

JBool(b) == IF b THEN Utf8("true") ELSE Utf8("false")

RECURSIVE JInt(_)
JInt(n) == IF n < 10 THEN <<48 + n>> ELSE JInt(n \div 10) \o <<48 + (n % 10)>>

\* ', '.join(parts)
RECURSIVE JJoin(_)
JJoin(parts) ==
    IF Len(parts) = 0 THEN << >>
    ELSE IF Len(parts) = 1 THEN parts[1]
    ELSE parts[1] \o <<44, 32>> \o JJoin(Tail(parts))

JList(parts) == <<91>> \o JJoin(parts) \o <<93>>

\* the keys of d, in the order `order`
Present(order, d) == SelectSeq(order, LAMBDA k : k \in DOMAIN d)

\* a dict whose values are already encoded: encoded[k] for each key k
JDict(order, encoded) ==
    LET keys == Present(order, encoded)
    IN  <<123>>
        \o JJoin([i \in 1..Len(keys) |->
                    JStr(keys[i]) \o <<58, 32>> \o encoded[keys[i]]])
        \o <<125>>

JField(k, v) ==
    IF k = "handlers" THEN JList([i \in 1..Len(v) |-> JStr(v[i])]) ELSE JStr(v)

FieldOrder ==
    <<"format", "level", "class", "formatter", "style", "stream", "handlers">>

JSpec(spec) ==
    IF spec = NoneV THEN Utf8("null")
    ELSE JDict(FieldOrder, [k \in DOMAIN spec |-> JField(k, spec[k])])

EntryOrder == <<"h1", "h2", "h3", "console", "default", "", "app", "app.db", "root">>

KeyOrder ==
    <<"incremental", "version", "disable_existing_loggers", "formatters",
      "handlers", "loggers", "tracemalloc", "show_warnings">>

JValue(k, v) ==
    CASE k = "version" -> JInt(v)
      [] k \in {"incremental", "disable_existing_loggers", "tracemalloc",
                "show_warnings"} -> JBool(v)
      [] OTHER -> JDict(EntryOrder, [n \in DOMAIN v |-> JSpec(v[n])])

json_dumps(config) ==
    JDict(KeyOrder, [k \in DOMAIN config |-> JValue(k, config[k])])

\* struct.pack('>L', n)
pack_L(n) ==
    <<(n \div 16777216) % 256, (n \div 65536) % 256, (n \div 256) % 256, n % 256>>

----------------------------------------------------------------------------
(* logging.config.dictConfig, as _setup_logging and the listener call it.  *)
(* A logger named 'root' is an ordinary logger below the root logger '',   *)
(* as the tests expect ('root' in manager.loggerDict).                      *)

Levels == <<"NOTSET", "DEBUG", "INFO", "WARNING", "ERROR", "CRITICAL">>

\* logging._checkLevel accepts the level
ValidLevel(l) == \E i \in 1..Len(Levels) : Levels[i] = l

LevelNum == [l \in {Levels[i] : i \in 1..Len(Levels)} |->
                CHOOSE i \in 1..Len(Levels) : Levels[i] = l]

\* logging.getLogger(name) of a name not seen before
NewLogger == [level |-> "NOTSET", handlers |-> {}, disabled |-> FALSE]

\* a process that has configured nothing: the root logger at WARNING
FreshEngine ==
    [handlers |-> EmptyDict,
     loggers  |-> ("" :> [level |-> "WARNING", handlers |-> {}, disabled |-> FALSE])]

\* the existing loggers whose names start with name + "."
DottedChildren(name, existing) ==
    IF name = "app" THEN existing \cap {"app.db"} ELSE {}

\* the parent of a logger in the hierarchy
Parent(name, loggers) ==
    IF name = "app.db" /\ "app" \in DOMAIN loggers THEN "app" ELSE ""

\* Logger.getEffectiveLevel
RECURSIVE EffectiveLevel(_, _)
EffectiveLevel(eng, name) ==
    IF eng.loggers[name].level # "NOTSET" \/ name = ""
    THEN eng.loggers[name].level
    ELSE EffectiveLevel(eng, Parent(name, eng.loggers))

\* Logger.isEnabledFor(level): a record of that level is processed
IsEnabledFor(eng, name, level) ==
    /\ ~ eng.loggers[name].disabled
    /\ LevelNum[level] >= LevelNum[EffectiveLevel(eng, name)]

Raised(eng) == [ok |-> FALSE, eng |-> eng]

Done(eng) == [ok |-> TRUE, eng |-> eng]

\* configure(), incremental branch: the level of each named handler, which
\* must be registered
RECURSIVE IncrementalHandlers(_, _, _)
IncrementalHandlers(names, handlers, eng) ==
    IF Len(names) = 0 THEN Done(eng)
    ELSE LET name == Head(names)
             handler_config == handlers[name]
         IN  IF name \notin DOMAIN eng.handlers THEN Raised(eng)
             ELSE IF handler_config = NoneV THEN Raised(eng)
             ELSE IF ~ Has(handler_config, "level")
                  THEN IncrementalHandlers(Tail(names), handlers, eng)
             ELSE IF ~ ValidLevel(handler_config.level) THEN Raised(eng)
             ELSE IncrementalHandlers(Tail(names), handlers,
                      [eng EXCEPT !.handlers[name] = handler_config.level])

\* configure(), full branch: configure_handler for each name of
\* sorted(handlers); the handlers made so far are registered
RECURSIVE FullHandlers(_, _, _, _)
FullHandlers(names, handlers, formatters, eng) ==
    IF Len(names) = 0 THEN Done(eng)
    ELSE LET name == Head(names)
             handler_config == handlers[name]
         IN  IF handler_config = NoneV THEN Raised(eng)
             ELSE IF Has(handler_config, "formatter")
                         /\ handler_config.formatter \notin DOMAIN formatters
                  THEN Raised(eng)
             ELSE IF Has(handler_config, "level") /\ ~ ValidLevel(handler_config.level)
                  THEN Raised(eng)
             ELSE FullHandlers(Tail(names), handlers, formatters,
                      [eng EXCEPT !.handlers =
                          Put(@, name, GetOr(handler_config, "level", "NOTSET"))])

\* add_handlers: the handlers added before the first unknown name
KnownPrefix(names, handlers) ==
    {names[i] : i \in {j \in 1..Len(names) :
                          \A k \in 1..j : names[k] \in DOMAIN handlers}}

\* configure_logger / common_logger_config for one logger
ConfigureLogger(name, config, incremental, handlers, eng) ==
    LET logger == GetOr(eng.loggers, name, NewLogger)
        withLevel == IF Has(config, "level")
                     THEN [logger EXCEPT !.level = config.level] ELSE logger
        wanted == IF Has(config, "handlers")
                  THEN {config.handlers[i] : i \in 1..Len(config.handlers)} ELSE {}
        store(l) == [eng EXCEPT !.loggers = Put(@, name, l)]
    IN  IF Has(config, "level") /\ ~ ValidLevel(config.level)
        THEN Raised(store(logger))
        ELSE IF incremental
        THEN Done(store([withLevel EXCEPT !.disabled = FALSE]))
        ELSE IF ~ (wanted \subseteq DOMAIN handlers)
        THEN Raised(store([withLevel EXCEPT
                              !.handlers = KnownPrefix(config.handlers, handlers)]))
        ELSE Done(store([withLevel EXCEPT !.handlers = wanted,
                                          !.disabled = FALSE]))

RECURSIVE ConfigureLoggers(_, _, _, _, _)
ConfigureLoggers(names, loggers, incremental, handlers, eng) ==
    IF Len(names) = 0 THEN Done(eng)
    ELSE LET r == ConfigureLogger(Head(names), loggers[Head(names)],
                                  incremental, handlers, eng)
         IN  IF r.ok
             THEN ConfigureLoggers(Tail(names), loggers, incremental, handlers, r.eng)
             ELSE r

\* _handle_existing_loggers: the loggers of before that the document does
\* not name; the children of named loggers are reset, the others get
\* disabled = disable_existing
HandleExistingDisableAll(existing, child_loggers, disable_existing, eng) ==
    [eng EXCEPT !.loggers =
        [n \in DOMAIN @ |->
            IF n \in existing THEN [@[n] EXCEPT !.disabled = disable_existing]
            ELSE @[n]]]

HandleExisting(existing, child_loggers, disable_existing, eng) ==
    [eng EXCEPT !.loggers =
        [n \in DOMAIN @ |->
            IF n \in existing \cap child_loggers
            THEN [@[n] EXCEPT !.level = "NOTSET", !.handlers = {}]
            ELSE IF n \in existing
            THEN [@[n] EXCEPT !.disabled = disable_existing]
            ELSE @[n]]]

\* sorted(handlers)
SortedHandlerNames == <<"console", "h1", "h2", "h3">>

\* DictConfigurator.configure: the engine after the call, and whether it
\* returned (ok) or raised
dictConfig(config, eng) ==
    IF ~ Has(config, "version") THEN Raised(eng)
    ELSE IF config["version"] # 1 THEN Raised(eng)
    ELSE
    LET incremental == GetOr(config, "incremental", FALSE)
        handlers == GetOr(config, "handlers", EmptyDict)
        formatters == GetOr(config, "formatters", EmptyDict)
        loggers == GetOr(config, "loggers", EmptyDict)
    IN  IF incremental
        THEN LET h == IncrementalHandlers(Present(EntryOrder, handlers), handlers, eng)
             IN  IF ~ h.ok THEN h
                 ELSE ConfigureLoggers(Present(EntryOrder, loggers), loggers,
                                       TRUE, handlers, h.eng)
        ELSE LET disable_existing == GetOr(config, "disable_existing_loggers", TRUE)
                 cleared == [eng EXCEPT !.handlers = EmptyDict]
                 h == FullHandlers(Present(SortedHandlerNames, handlers), handlers,
                                   formatters, cleared)
                 before == (DOMAIN eng.loggers) \ {""}
                 named == DOMAIN loggers
                 child_loggers == UNION {DottedChildren(n, before) : n \in named}
             IN  IF ~ h.ok THEN h
                 ELSE LET l == ConfigureLoggers(Present(EntryOrder, loggers), loggers,
                                                FALSE, handlers, h.eng)
                      IN  IF ~ l.ok THEN l
                          ELSE Done(HandleExisting(before \ named, child_loggers,
                                                   disable_existing, l.eng))

\* the handles of the listener threads a process is seen to create
Handles == {"t1", "t2"}

\* a thread object not created yet
NoThread == [state |-> "new", port |-> 0, abort |-> FALSE]

NoStop == [pc |-> "idle", handle |-> "none"]

\* a process that has called neither listen nor stop_listen
StopIdle ==
    /\ threads = [h \in Handles |-> NoThread]
    /\ glistener = "none"
    /\ hooks = << >>
    /\ held = {}
    /\ stopper = NoStop
    /\ returned = {}
    /\ main = "running"

\* the connections a listener is seen to serve
Conns == {"c1", "c2"}

\* no connection yet
IdleConn == [pc |-> "idle", stream |-> "none", slen |-> 0, got |-> 0,
             outcome |-> "none"]

\* no dictConfig call yet
NoApply == [config |-> EmptyDict, ok |-> TRUE, by |-> "none",
            before |-> {}, tick |-> FALSE]

\* a process that neither configures logging nor listens
ListenIdle ==
    /\ engine = FreshEngine
    /\ lstate = "off"
    /\ conns = [c \in Conns |-> IdleConn]
    /\ applied = NoApply
    /\ setups = 0

----------------------------------------------------------------------------
(* the sources a caller can hand to _get_config *)

custom_handler ==
    [level     |-> "INFO",
     class     |-> "logging.StreamHandler",
     formatter |-> "default",
     stream    |-> "ext://sys.stderr"]

custom_formatter ==
    [format |-> "{message}", class |-> "logging.Formatter", style |-> "{"]

\* the 'console' entries of a handlers mapping: none, the disabled sentinel,
\* the caller's own spec
ConsoleEntries ==
    {EmptyDict, "console" :> NoneV, "console" :> custom_handler}

\* the caller-defined handlers: each either enabled or disabled
ExtraEntries ==
    UNION {[S -> {custom_handler, NoneV}] : S \in SUBSET ExtraHandlers}

HandlersEntries ==
    {EmptyDict, "handlers" :> NoneV}
        \cup {"handlers" :> (e @@ c) : e \in ExtraEntries, c \in ConsoleEntries}

LoggersEntries ==
    {EmptyDict,
     "loggers" :> EmptyDict,
     "loggers" :> ("" :> [level |-> "WARNING", handlers |-> <<"console">>]),
     "loggers" :> ("root" :> [level |-> "CRITICAL"]),
     "loggers" :> ("app" :> [level |-> "ERROR", handlers |-> << >>])}

FormattersEntries ==
    {EmptyDict, "formatters" :> ("default" :> custom_formatter)}

DefaultsEntries ==
    {a @@ b : a \in {EmptyDict, "default_log_level" :> "INFO"},
              b \in {EmptyDict, "default_log_format" :> "{message}"}}

\* the mappings of the resolver's callers
Mappings ==
    {h @@ l @@ f @@ d : h \in HandlersEntries, l \in LoggersEntries,
                        f \in FormattersEntries, d \in DefaultsEntries}

Texts ==
    {"{}", "handlers: {console: null}", "loggers: {root: {level: ERROR}}",
     "{\"disable_existing_loggers\": true}", "{unclosed", "hello", "/etc/log.yml", "/etc/log.json", "/etc/motd",
     "/etc/missing.yml"}

Sources ==
    {[kind |-> "none"], [kind |-> "other"]}
        \cup {[kind |-> "dict", dict |-> m] : m \in Mappings}
        \cup {[kind |-> "str", text |-> t] : t \in Texts}

\* os.environ.get('LOG_CONFIG', None)
Environs ==
    {[kind |-> "none"], [kind |-> "str", text |-> "/etc/log.json"],
     [kind |-> "str", text |-> "{unclosed"]}

NotCalled == [kind |-> "not called"]

----------------------------------------------------------------------------
(* the resolver and its callers *)

NonePort == [t |-> "none", v |-> 0]

PortInt(n) == [t |-> "int", v |-> n]

\* the string of the decimal digits of n
PortStr(n) == [t |-> "str", v |-> n]

NoSocket == [state |-> "none", port |-> NonePort]

\* no update_config call in this process
SendIdle ==
    /\ ucArgs = NotCalled
    /\ ucPc = "idle"
    /\ ucConfig = EmptyDict
    /\ ucPort = NonePort
    /\ asked = FALSE
    /\ answer = "none"
    /\ sock = NoSocket
    /\ wire = << >>
    /\ ucResult = "none"

\* no _get_config call of its own in this process
ResolveIdle ==
    /\ source = [kind |-> "none"]
    /\ resolved = NotCalled
    /\ again = NotCalled
    /\ pcR = "idle"

\* the caller handed no mapping
NoMapping == [given |-> EmptyDict, now |-> EmptyDict]

\* the caller's mapping before the call
Given(src) ==
    IF src.kind = "dict" THEN [given |-> src.dict, now |-> src.dict] ELSE NoMapping

\* the object a _get_config call returns: the caller's mapping (line 144),
\* or the n-th mapping made by the call itself (lines 142, 153)
Returned(src, n) ==
    IF src.kind = "dict" THEN "arg" ELSE IF n = 1 THEN "new1" ELSE "new2"

\* no caller with a mapping in this process
HeapIdle ==
    /\ callerMap = NoMapping
    /\ docs = << >>

InitResolve ==
    /\ source \in Sources
    /\ environ \in Environs
    /\ resolved = NotCalled
    /\ again = NotCalled
    /\ pcR = "start"
    /\ callerMap = Given(source)
    /\ docs = << >>
    /\ SendIdle
    /\ ListenIdle
    /\ StopIdle

\* config = _get_config(source)
Resolve ==
    /\ pcR = "start"
    /\ resolved' = _get_config(source, environ)
    /\ pcR' = "resolved"
    /\ callerMap' = IF source.kind = "dict"
                    THEN [callerMap EXCEPT !.now = MappingAfter(source.dict)]
                    ELSE callerMap
    /\ docs' = IF _get_config(source, environ).kind = "ok"
               THEN <<Returned(source, 1)>> ELSE docs
    /\ UNCHANGED <<source, environ, again, sendVars, listenVars, stopVars>>

\* _get_config(config): the resolver applied to its own result
ResolveAgain ==
    /\ pcR = "resolved"
    /\ resolved.kind = "ok"
    /\ again' = _get_config([kind |-> "dict", dict |-> resolved.config], environ)
    /\ pcR' = "again"
    /\ UNCHANGED <<source, environ, resolved, sendVars, listenVars, stopVars,
                   heapVars>>

\* a second _get_config(source) by the same caller, who still holds the
\* mapping it handed to the first
ResolveSource ==
    /\ pcR = "resolved"
    /\ resolved.kind = "ok"
    /\ LET src == IF source.kind = "dict"
                  THEN [kind |-> "dict", dict |-> callerMap.now] ELSE source
       IN  /\ again' = _get_config(src, environ)
           /\ callerMap' = IF source.kind = "dict"
                           THEN [callerMap EXCEPT !.now = MappingAfter(callerMap.now)]
                           ELSE callerMap
           /\ docs' = IF _get_config(src, environ).kind = "ok"
                      THEN Append(docs, Returned(source, 2)) ELSE docs
    /\ pcR' = "twice"
    /\ UNCHANGED <<source, environ, resolved, sendVars, listenVars, stopVars>>

NextResolve == Resolve \/ ResolveAgain \/ ResolveSource

SpecResolve == InitResolve /\ [][NextResolve]_vars

----------------------------------------------------------------------------
(* C9, C10 *)

\* the mapping the source denotes, when it denotes one
SourceMap == LoadSource(source, environ).map

\* C9: every document _get_config returns has formatters, handlers and
\* loggers as mappings, a formatter 'default', a handler 'console' (the
\* caller's entry when there is one, the disabled sentinel included, else the
\* default console spec) and a logger '' or 'root'; an absent source without
\* LOG_CONFIG gives exactly the root logger at DEBUG, the console handler and
\* the default formatter.
C9_ResolvedShape ==
    resolved.kind = "ok" =>
        LET c == resolved.config
        IN  /\ {"formatters", "handlers", "loggers"} \subseteq DOMAIN c
            /\ c["formatters"] # NoneV /\ c["handlers"] # NoneV /\ c["loggers"] # NoneV
            /\ "default" \in DOMAIN c["formatters"]
            /\ "console" \in DOMAIN c["handlers"]
            /\ c["handlers"]["console"] =
                  (IF Has(SourceMap, "handlers") /\ Has(SourceMap["handlers"], "console")
                   THEN SourceMap["handlers"]["console"]
                   ELSE default_handler)
            /\ ("" \in DOMAIN c["loggers"] \/ "root" \in DOMAIN c["loggers"])
            /\ (source.kind = "none" /\ environ.kind = "none") =>
                  /\ c["loggers"] = ("root" :> [level |-> "DEBUG", handlers |-> <<"console">>])
                  /\ c["handlers"] = ("console" :> default_handler)
                  /\ c["formatters"] = ("default" :> default_formatter(DEFAULT_LOG_FORMAT))

\* a caller's disabled console handler went through the resolver
C9_Witness ==
    /\ resolved.kind = "ok"
    /\ source.kind = "dict"
    /\ Has(source.dict, "handlers")
    /\ source.dict["handlers"] # NoneV
    /\ Has(source.dict["handlers"], "console")
    /\ source.dict["handlers"]["console"] = NoneV
    /\ resolved.config["handlers"]["console"] = NoneV

\* C10: _get_config applied to a document it returned returns an equal
\* document.
C10_Idempotent ==
    pcR = "again" => (again.kind = "ok" /\ again.config = resolved.config)

\* a document with default_log_level, a disabled console handler and no root
\* logger of its own was resolved twice
C10_Witness ==
    /\ pcR = "again"
    /\ source.kind = "dict"
    /\ Has(source.dict, "default_log_level")
    /\ Has(source.dict, "default_log_format")
    /\ Has(source.dict, "handlers")
    /\ source.dict["handlers"] # NoneV
    /\ Has(source.dict["handlers"], "console")
    /\ source.dict["handlers"]["console"] = NoneV
    /\ ~ Has(source.dict, "loggers")
    /\ resolved.config["loggers"]["root"].level = "INFO"

----------------------------------------------------------------------------
(* update_config *)

\* logging.config.DEFAULT_LOGGING_CONFIG_PORT
DEFAULT_LOGGING_CONFIG_PORT == 9030

\* the ports of 127.0.0.1 a listener is accepting on
ListeningPorts == {9030, 9021}

\* bool(x) of a port argument: None and 0 are false
Truthy(port) == port.t # "none" /\ ~ (port.t = "int" /\ port.v = 0)

\* line 121: not config['incremental'] and config['disable_existing_loggers']
dangerousIgnoringIncremental(config) == config["disable_existing_loggers"]

dangerous(config) == ~ config["incremental"] /\ config["disable_existing_loggers"]

\* line 116: listen_port = listen_port or cfg_port
PortChoice(listen_port, cfg_port) ==
    IF Truthy(listen_port) THEN listen_port ELSE cfg_port

\* s.send(buf) where the socket takes at most `room` bytes: the bytes taken
Taken(buf, room) == SubSeq(buf, 1, IF room < Len(buf) THEN room ELSE Len(buf))

\* the most bytes a single send is seen to leave behind is explored up to here
MaxRoom == 3

\* the room a send finds in the socket's buffer: at least one byte, or all
Rooms(buf) == (1..MaxRoom) \cup {Len(buf)}

\* lines 115 and 119: the document without `listen`, with `incremental`
UcDocument(config, incremental) ==
    SetDefault(PopRest(config, "listen"), "incremental", incremental)

\* lines 112-125, up to the question
UcPrepare ==
    /\ ucPc = "start"
    /\ LET r == _get_config(ucArgs.path_or_json, environ)
       IN  IF r.kind # "ok"
           THEN /\ ucPc' = "done"
                /\ ucResult' = r.exc
                /\ UNCHANGED <<ucConfig, ucPort, asked>>
           ELSE LET cfg_port == GetOr(r.config, "listen",
                                      PortInt(DEFAULT_LOGGING_CONFIG_PORT))
                    config == UcDocument(r.config, ucArgs.incremental)
                IN  /\ ucConfig' = config
                    /\ ucPort' = PortChoice(ucArgs.listen_port, cfg_port)
                    /\ asked' = (dangerous(config) /\ ucArgs.explicit_disable)
                    /\ ucPc' = IF dangerous(config) /\ ucArgs.explicit_disable
                               THEN "query" ELSE "connect"
                    /\ UNCHANGED ucResult
    /\ LET src == ucArgs.path_or_json
           r == _get_config(src, environ)
       IN  /\ callerMap' =
                 IF src.kind # "dict" THEN callerMap
                 ELSE IF r.kind = "ok"
                 THEN [callerMap EXCEPT !.now = UcDocument(r.config, ucArgs.incremental)]
                 ELSE [callerMap EXCEPT !.now = MappingAfter(src.dict)]
           /\ docs' = IF r.kind = "ok" THEN <<Returned(src, 1)>> ELSE docs
    /\ UNCHANGED <<stopVars, listenVars, resolveVars, ucArgs, answer, sock, wire>>

\* lines 123-125: the answer of _query_yes_no
UcAnswer(success) ==
    /\ ucPc = "query"
    /\ answer' = IF success THEN "yes" ELSE "no"
    /\ IF success
       THEN ucPc' = "connect" /\ UNCHANGED ucResult
       ELSE ucPc' = "done" /\ ucResult' = "declined"
    /\ UNCHANGED <<stopVars, listenVars, heapVars, resolveVars, ucArgs, ucConfig, ucPort, asked, sock, wire>>

\* lines 130-131: socket.connect(('127.0.0.1', listen_port))
UcConnect ==
    /\ ucPc = "connect"
    /\ CASE ucPort.t # "int" ->
              /\ ucPc' = "done"
              /\ ucResult' = "TypeError"
              /\ UNCHANGED sock
         [] ucPort.t = "int" /\ ucPort.v \notin ListeningPorts ->
              /\ ucPc' = "done"
              /\ ucResult' = "ConnectionRefusedError"
              /\ UNCHANGED sock
         [] OTHER ->
              /\ ucPc' = "send_len"
              /\ sock' = [state |-> "open", port |-> ucPort]
              /\ UNCHANGED ucResult
    /\ UNCHANGED <<stopVars, listenVars, heapVars, resolveVars, ucArgs, ucConfig, ucPort, asked, answer, wire>>

\* line 132: s.send(struct.pack('>L', len(data_to_send)))
UcSendLen ==
    /\ ucPc = "send_len"
    /\ LET buf == pack_L(Len(json_dumps(ucConfig)))
       IN  \E room \in Rooms(buf) : wire' = wire \o Taken(buf, room)
    /\ ucPc' = "send_data"
    /\ UNCHANGED <<stopVars, listenVars, heapVars, resolveVars, ucArgs, ucConfig, ucPort, asked, answer, sock, ucResult>>

\* line 133: s.send(data_to_send)
UcSendData ==
    /\ ucPc = "send_data"
    /\ LET buf == json_dumps(ucConfig)
       IN  \E room \in Rooms(buf) : wire' = wire \o Taken(buf, room)
    /\ ucPc' = "close"
    /\ UNCHANGED <<stopVars, listenVars, heapVars, resolveVars, ucArgs, ucConfig, ucPort, asked, answer, sock, ucResult>>

\* line 134: s.close()
UcClose ==
    /\ ucPc = "close"
    /\ sock' = [sock EXCEPT !.state = "closed"]
    /\ ucPc' = "done"
    /\ ucResult' = "returned"
    /\ UNCHANGED <<stopVars, listenVars, heapVars, resolveVars, ucArgs, ucConfig, ucPort, asked, answer, wire>>

\* the documents update_config is called with
SendMappings ==
    {i @@ d @@ l @@ g :
        i \in {EmptyDict, "incremental" :> TRUE, "incremental" :> FALSE},
        d \in {EmptyDict, "disable_existing_loggers" :> TRUE,
               "disable_existing_loggers" :> FALSE},
        l \in {EmptyDict, "listen" :> PortInt(9021)},
        g \in {EmptyDict, "loggers" :> ("root" :> [level |-> "CRITICAL"])}}

SendSources ==
    {[kind |-> "none"], [kind |-> "str", text |-> "/etc/log.json"],
     [kind |-> "str", text |-> "{\"disable_existing_loggers\": true}"],
     [kind |-> "str", text |-> "/etc/missing.yml"]}
        \cup {[kind |-> "dict", dict |-> m] : m \in SendMappings}

ApiPorts == {NonePort, PortInt(0), PortInt(9021), PortInt(9040), PortStr(9021)}

\* log.update_config(path_or_json, incremental, listen_port, explicit_disable)
ApiCalls ==
    [path_or_json : SendSources, incremental : BOOLEAN, listen_port : ApiPorts,
     explicit_disable : BOOLEAN, cli : {FALSE}]

\* cli.py lines 15-22: --config is a string or absent, --port a string or
\* absent, and the call is log.update_config(config, not overwrite, port, True)
CliCalls ==
    [path_or_json : {src \in SendSources : src.kind \in {"none", "str"}},
     incremental : BOOLEAN, listen_port : {NonePort, PortStr(9021)},
     explicit_disable : {TRUE}, cli : {TRUE}]

InitSend ==
    /\ ucArgs \in ApiCalls \cup CliCalls
    /\ ucPc = "start"
    /\ ucConfig = EmptyDict
    /\ ucPort = NonePort
    /\ asked = FALSE
    /\ answer = "none"
    /\ sock = NoSocket
    /\ wire = << >>
    /\ ucResult = "none"
    /\ environ = [kind |-> "none"]
    /\ ResolveIdle
    /\ callerMap = Given(ucArgs.path_or_json)
    /\ docs = << >>
    /\ ListenIdle
    /\ StopIdle

NextSend ==
    \/ UcPrepare
    \/ \E success \in BOOLEAN : UcAnswer(success)
    \/ UcConnect
    \/ UcSendLen
    \/ UcSendData
    \/ UcClose

SpecSend == InitSend /\ [][NextSend]_vars

----------------------------------------------------------------------------
(* C1, C2, C3 *)

\* the mapping update_config's source denotes, when it denotes one
SendMap == LoadSource(ucArgs.path_or_json, environ).map

SendResolves == _get_config(ucArgs.path_or_json, environ).kind = "ok"

\* the document's flags: its own, else the `incremental` argument and the
\* resolver's default for disable_existing_loggers
FlagIncremental == GetOr(SendMap, "incremental", ucArgs.incremental)

FlagDisable == GetOr(SendMap, "disable_existing_loggers", FALSE)

Destructive == ~ FlagIncremental /\ FlagDisable

PastGuard == ucPc \notin {"idle", "start"} /\ SendResolves

\* C1: with explicit_disable=True the confirmation is asked exactly for the
\* documents whose incremental flag is false and whose
\* disable_existing_loggers flag is true; for such a document no connection
\* is opened and no byte is sent unless the answer was yes; for the other
\* three combinations nothing is asked, the call is not declined, and a call
\* that returns has written to its connection and closed it.
C1_GuardedSend ==
    (PastGuard /\ ucArgs.explicit_disable) =>
        /\ asked = Destructive
        /\ (Destructive /\ answer # "yes") => (sock.state = "none" /\ wire = << >>)
        /\ (~ Destructive /\ ucPc = "done") =>
              /\ answer = "none"
              /\ ucResult \in {"returned", "TypeError", "ConnectionRefusedError"}
              /\ ucResult = "returned" => (sock.state = "closed" /\ Len(wire) > 0)

\* a destructive document was declined at the prompt and nothing was sent
C1_Witness ==
    /\ ucPc = "done"
    /\ ucArgs.explicit_disable
    /\ ucArgs.cli
    /\ SendResolves
    /\ Destructive
    /\ asked
    /\ answer = "no"
    /\ sock.state = "none"
    /\ wire = << >>

\* C2: a call that transmitted a document has put on its connection exactly
\* the 4-byte big-endian length N of the JSON encoding of the document,
\* then its N bytes, whatever each socket write accepted.
C2_Framing ==
    ucResult = "returned" =>
        wire = pack_L(Len(json_dumps(ucConfig))) \o json_dumps(ucConfig)

\* the port the caller asked for: the argument when one is supplied, else
\* the document's `listen`, else the protocol default
WantedPort ==
    IF ucArgs.listen_port # NonePort THEN ucArgs.listen_port
    ELSE GetOr(SendMap, "listen", PortInt(DEFAULT_LOGGING_CONFIG_PORT))

Connecting ==
    \/ ucPc \in {"send_len", "send_data", "close"}
    \/ ucPc = "done" /\ ucResult \in {"returned", "TypeError", "ConnectionRefusedError"}

\* C3: update_config connects to the listen_port argument when the caller
\* supplies one, else to the document's `listen`, else to the default port,
\* for every port value the caller, the CLI's --port included, can supply.
C3_PortPrecedence ==
    Connecting => (ucResult # "TypeError" /\ ucPort = PortInt(WantedPort.v))

----------------------------------------------------------------------------
(* the listening process: setup_logging, listen, and the handler threads  *)
(* of logging.config.listen that listen() starts                          *)

\* the setup_logging calls of the listening process are explored up to here
MaxSetups == 2

\* a single recv is seen to return at most this many bytes, or all there is
MaxSegment == 256

\* the documents the listening process configures itself with
LevelUpdate == "loggers" :> ("root" :> [level |-> "CRITICAL"])

ListenMappings ==
    {EmptyDict,
     "loggers" :> ("app.db" :> [level |-> "ERROR"]),
     ("loggers" :> ("app" :> [level |-> "INFO"]))
         @@ ("disable_existing_loggers" :> TRUE),
     "loggers" :> ("app" :> [level |-> "ERROR"]),
     "disable_existing_loggers" :> TRUE,
     "handlers" :> ("console" :> NoneV),
     ("handlers" :> ("h1" :> custom_handler)) @@ ("listen" :> PortInt(9021)),
     LevelUpdate @@ ("incremental" :> TRUE),
     "loggers" :> ("app" :> [level |-> "BOGUS"])}

\* config after the pops of lines 28-31
SetupDocument(config) ==
    PopRest(PopRest(PopRest(PopRest(config, "show_warnings"), "sentry_config"),
                    "tracemalloc"), "listen")

\* update_config(mapping, incremental): the document of line 127
Outgoing(mapping, incremental) ==
    UcDocument(InjectDefaults(mapping).config, incremental)

\* the documents that travel to the listener
WireDocs ==
    [level    |-> Outgoing(LevelUpdate, TRUE),
     levelh   |-> Outgoing(LevelUpdate
                           @@ ("handlers" :> ("h1" :> [level |-> "CRITICAL"])), TRUE),
     full     |-> Outgoing("loggers" :> ("app" :> [level |-> "ERROR"]), FALSE),
     disable  |-> Outgoing(("loggers" :> ("app" :> [level |-> "INFO"]))
                           @@ ("disable_existing_loggers" :> TRUE), FALSE),
     rejected |-> Outgoing("loggers" :> ("app" :> [level |-> "BOGUS"]), FALSE)]

\* lines 132-133 when each send takes all of its buffer
Frame(data) == pack_L(Len(data)) \o data

\* what the peers of the listener write, and what they do after
Streams ==
    [level     |-> [bytes |-> Frame(json_dumps(WireDocs.level)), end |-> "close"],
     levelh    |-> [bytes |-> Frame(json_dumps(WireDocs.levelh)), end |-> "close"],
     full      |-> [bytes |-> Frame(json_dumps(WireDocs.full)), end |-> "close"],
     disable   |-> [bytes |-> Frame(json_dumps(WireDocs.disable)), end |-> "close"],
     rejected  |-> [bytes |-> Frame(json_dumps(WireDocs.rejected)), end |-> "close"],
     junk      |-> [bytes |-> Frame(<<104, 101, 108, 108, 111>>), end |-> "close"],
     short     |-> [bytes |-> SubSeq(Frame(json_dumps(WireDocs.level)), 1, 2),
                    end |-> "close"],
     prefix    |-> [bytes |-> SubSeq(Frame(json_dumps(WireDocs.level)), 1, 4),
                    end |-> "close"],
     truncated |-> [bytes |-> SubSeq(Frame(json_dumps(WireDocs.level)), 1, 14),
                    end |-> "close"],
     silent    |-> [bytes |-> SubSeq(Frame(json_dumps(WireDocs.level)), 1, 14),
                    end |-> "silent"]]

\* the streams that carry a whole frame
WholeStreams == {"level", "levelh", "full", "disable", "rejected", "junk"}

\* the streams the connections of a listener are seen to carry
ServedStreams ==
    {"level", "full", "rejected", "junk", "short", "prefix", "truncated", "silent"}

\* the set-ups of a process that listens
ServerMappings ==
    {EmptyDict,
     ("handlers" :> ("h1" :> custom_handler)) @@ ("listen" :> PortInt(9021))}

\* struct.unpack(">L", chunk)[0]
unpack_L(chunk) ==
    chunk[1] * 16777216 + chunk[2] * 65536 + chunk[3] * 256 + chunk[4]

\* json.loads(chunk): the document whose encoding chunk is, if there is one
json_loads(chunk) ==
    IF \E k \in DOMAIN WireDocs : json_dumps(WireDocs[k]) = chunk
    THEN [ok |-> TRUE,
          doc |-> WireDocs[CHOOSE k \in DOMAIN WireDocs :
                               json_dumps(WireDocs[k]) = chunk]]
    ELSE [ok |-> FALSE, doc |-> EmptyDict]

Min(a, b) == IF a < b THEN a ELSE b

\* the number of bytes a recv(n) returns when `left` bytes are still to come
RecvSizes(n, left) == {Min(n, left), Min(Min(n, left), MaxSegment)}

\* one dictConfig call of the listening process
Apply(config, by) ==
    LET r == dictConfig(config, engine)
    IN  /\ engine' = r.eng
        /\ applied' = [config |-> config, ok |-> r.ok, by |-> by,
                       before |-> (DOMAIN engine.loggers) \ {""},
                       tick |-> ~ applied.tick]

\* the application calls logging.getLogger(name) for the first time
LGetLogger(name) ==
    /\ lstate = "off"
    /\ name \notin DOMAIN engine.loggers
    /\ engine' = [engine EXCEPT !.loggers = Put(@, name, NewLogger)]
    /\ UNCHANGED <<stopVars, heapVars, resolveVars, sendVars, lstate, conns, applied, setups>>

\* setup_logging(mapping), lines 21-55
LSetup(mapping) ==
    /\ lstate = "off"
    /\ setups < MaxSetups
    /\ setups' = setups + 1
    /\ LET config == InjectDefaults(mapping).config
       IN  /\ Apply(SetupDocument(config), "local")
           /\ lstate' = IF dictConfig(SetupDocument(config), engine).ok
                           /\ Has(config, "listen")
                        THEN "on" ELSE lstate
    /\ callerMap' = [given |-> mapping,
                     now |-> SetupDocument(InjectDefaults(mapping).config)]
    /\ docs' = <<Returned([kind |-> "dict", dict |-> mapping], 1)>>
    /\ UNCHANGED <<stopVars, resolveVars, sendVars, conns>>

\* listen(), lines 75-100: the listener thread is started at line 93
LListen ==
    /\ lstate = "off"
    /\ lstate' = "on"
    /\ UNCHANGED <<stopVars, heapVars, resolveVars, sendVars, engine, conns, applied, setups>>

\* the listener accepts a connection and starts its handler thread
Accept(c, s) ==
    /\ lstate = "on"
    /\ conns[c].pc = "idle"
    /\ conns' = [conns EXCEPT ![c] = [IdleConn EXCEPT !.pc = "recv_len", !.stream = s]]
    /\ UNCHANGED <<stopVars, heapVars, resolveVars, sendVars, engine, lstate, applied, setups>>

\* ConfigStreamHandler.handle: chunk = conn.recv(4); if len(chunk) == 4
HRecvLen(c) ==
    /\ conns[c].pc = "recv_len"
    /\ LET bytes == Streams[conns[c].stream].bytes
       IN  /\ Len(bytes) > 0 \/ Streams[conns[c].stream].end = "close"
           /\ conns' = [conns EXCEPT ![c] =
                 IF Min(4, Len(bytes)) = 4
                 THEN [@ EXCEPT !.pc = "recv_body", !.slen = unpack_L(bytes)]
                 ELSE [@ EXCEPT !.pc = "done", !.outcome = "short"]]
    /\ UNCHANGED <<stopVars, heapVars, resolveVars, sendVars, engine, lstate, applied, setups>>

\* chunk = conn.recv(slen); while len(chunk) < slen: chunk = chunk +
\* conn.recv(slen - len(chunk)).  A recv that finds the peer gone returns
\* b"" and the loop runs again in the same state; a recv that finds the peer
\* silent does not return: neither is a step.
HRecvBody(c) ==
    /\ conns[c].pc = "recv_body"
    /\ LET bytes == Streams[conns[c].stream].bytes
           left == Len(bytes) - 4 - conns[c].got
       IN  /\ left > 0
           /\ \E k \in RecvSizes(conns[c].slen - conns[c].got, left) :
                 conns' = [conns EXCEPT ![c] =
                     [@ EXCEPT !.got = @ + k,
                               !.pc = IF conns[c].got + k < conns[c].slen
                                      THEN "recv_body" ELSE "apply"]]
    /\ UNCHANGED <<stopVars, heapVars, resolveVars, sendVars, engine, lstate, applied, setups>>

\* d = json.loads(chunk); dictConfig(d); on any exception
\* fileConfig(io.StringIO(chunk)), which fails on these bytes before it
\* changes anything, and the traceback is printed
HApply(c) ==
    /\ conns[c].pc = "apply"
    /\ LET bytes == Streams[conns[c].stream].bytes
           d == json_loads(SubSeq(bytes, 5, 4 + conns[c].slen))
       IN  IF d.ok
           THEN /\ Apply(d.doc, c)
                /\ conns' = [conns EXCEPT ![c] =
                      [@ EXCEPT !.pc = "done",
                                !.outcome = IF dictConfig(d.doc, engine).ok
                                            THEN "applied" ELSE "rejected"]]
           ELSE /\ conns' = [conns EXCEPT ![c] =
                      [@ EXCEPT !.pc = "done", !.outcome = "not json"]]
                /\ UNCHANGED <<engine, applied>>
    /\ UNCHANGED <<stopVars, heapVars, resolveVars, sendVars, lstate, setups>>

\* the handler thread of connection c
Handler(c) == HRecvLen(c) \/ HRecvBody(c) \/ HApply(c)

InitListen ==
    /\ ListenIdle
    /\ HeapIdle
    /\ StopIdle
    /\ ResolveIdle
    /\ SendIdle
    /\ environ = [kind |-> "none"]

\* a process that configures itself, starts a listener and serves one
\* connection that carries a whole frame
NextApply ==
    \/ \E name \in {"app", "app.db"} : LGetLogger(name)
    \/ \E mapping \in ListenMappings : LSetup(mapping)
    \/ LListen
    \/ \E s \in WholeStreams : Accept("c1", s)
    \/ HRecvLen("c1")
    \/ HRecvBody("c1")
    \/ HApply("c1")

SpecApply == InitListen /\ [][NextApply]_vars

\* a listener, started directly or by the `listen` key, and its connections
NextListen ==
    \/ \E mapping \in ServerMappings : LSetup(mapping)
    \/ LListen
    \/ \E c \in Conns, s \in ServedStreams : Accept(c, s)
    \/ \E c \in Conns : HRecvLen(c)
    \/ \E c \in Conns : HRecvBody(c)
    \/ \E c \in Conns : HApply(c)

SpecListen == InitListen /\ [][NextListen]_vars

----------------------------------------------------------------------------
(* properties of the listening process *)

\* a handler thread finishes the connection c in this step
Finishes(c) == conns[c].pc # "done" /\ conns'[c].pc = "done"

\* the levels below level
Below(level) == {l \in DOMAIN LevelNum : LevelNum[l] < LevelNum[level]}

\* C4: when the listener has handled the frame update_config sent for an
\* incremental document that names only the level CRITICAL for the logger
\* `root`, that logger's effective level is CRITICAL and it processes no
\* record below CRITICAL, whatever the listening process had configured.
C4_LevelApplied ==
    [][\A c \in Conns :
          Finishes(c) /\ conns[c].stream = "level" =>
              /\ "root" \in DOMAIN engine'.loggers
              /\ EffectiveLevel(engine', "root") = "CRITICAL"
              /\ \A l \in Below("CRITICAL") : ~ IsEnabledFor(engine', "root", l)]_vars

\* the loggers and handlers a document names
Named(config) == DOMAIN GetOr(config, "loggers", EmptyDict)

NamedHandlers(config) == DOMAIN GetOr(config, "handlers", EmptyDict)

\* nothing the document does not name is removed or changed
KeepsUnnamed(config) ==
    /\ DOMAIN engine.loggers \subseteq DOMAIN engine'.loggers
    /\ DOMAIN engine.handlers \subseteq DOMAIN engine'.handlers
    /\ \A n \in (DOMAIN engine.loggers) \ Named(config) :
          engine'.loggers[n] = engine.loggers[n]
    /\ \A h \in (DOMAIN engine.handlers) \ NamedHandlers(config) :
          engine'.handlers[h] = engine.handlers[h]

\* the loggers of before the call that the document does not name
Unnamed(config) == ((DOMAIN engine.loggers) \ {""}) \ Named(config)

\* those of them below a logger the document names
ChildrenOfNamed(config) ==
    UNION {DottedChildren(n, (DOMAIN engine.loggers) \ {""}) : n \in Named(config)}

C6_MalformedHarmless ==
    [][/\ \A c \in Conns :
             conns'[c] # conns[c] /\ conns'[c].outcome # "applied" =>
                 engine' = engine
       /\ lstate = "on" => lstate' = "on"
       /\ \A c \in Conns :
             Finishes(c) /\ conns[c].stream = "full" =>
                 conns'[c].outcome = "applied"]_vars

\* C7: the handler of a connection the listener has accepted has finished
\* or can take a step: it never waits or spins forever.
C7_Finished ==
    \A c \in Conns : conns[c].pc \in {"idle", "done"} \/ ENABLED Handler(c)

----------------------------------------------------------------------------
(* listen and stop_listen: the listener threads of one process *)

\* LOG.info(...) of line 95 handles its record: the module's logger
\* 'logging_py3.log' has no level of its own and inherits the root logger's
LogInfoEnabled == LevelNum[engine.loggers[""].level] <= LevelNum["INFO"]

\* the ports listen() is called with
ListenPorts == {DEFAULT_LOGGING_CONFIG_PORT, 9021}

\* listen(listen_port), lines 75-100, by a direct call or by the `listen`
\* key of setup_logging (line 55).  Line 93 starts the thread; line 95 calls
\* LOG.info with a keyword argument Logger.info does not take, so that it
\* raises TypeError when it handles the record, before lines 98 and 100
SListen(h, p) ==
    /\ main = "running"
    /\ stopper.pc = "idle"
    /\ threads[h].state = "new"
    /\ h = "t2" => threads["t1"].state # "new"
    /\ threads' = [threads EXCEPT ![h] = [state |-> "started", port |-> p,
                                          abort |-> FALSE]]
    /\ IF LogInfoEnabled
       THEN UNCHANGED <<hooks, held>>
       ELSE hooks' = Append(hooks, h) /\ held' = held \cup {h}
    /\ UNCHANGED <<heapVars, resolveVars, sendVars, listenVars, glistener, stopper,
                   returned, main>>

\* Server.run: the server is created and binds its port, which fails while
\* another server of the process holds it
TBind(h) ==
    /\ threads[h].state = "started"
    /\ threads' = [threads EXCEPT ![h].state =
          IF \E g \in Handles \ {h} :
                /\ threads[g].state \in {"bound", "serving"}
                /\ threads[g].port = threads[h].port
          THEN "dead" ELSE "bound"]
    /\ UNCHANGED <<heapVars, resolveVars, sendVars, listenVars, glistener, hooks, held,
                   stopper, returned, main>>

\* Server.run: _listener = server, then serve_until_stopped()
TRegister(h) ==
    /\ threads[h].state = "bound"
    /\ threads' = [threads EXCEPT ![h].state = "serving"]
    /\ glistener' = h
    /\ UNCHANGED <<heapVars, resolveVars, sendVars, listenVars, hooks, held, stopper,
                   returned, main>>

\* serve_until_stopped: the loop ends when it reads abort set, and the
\* server is closed; with abort clear it runs again in the same state
TServe(h) ==
    /\ threads[h].state = "serving"
    /\ threads[h].abort
    /\ threads' = [threads EXCEPT ![h].state = "dead"]
    /\ UNCHANGED <<heapVars, resolveVars, sendVars, listenVars, glistener, hooks, held,
                   stopper, returned, main>>

\* the listener thread of handle h
Thread(h) == TBind(h) \/ TRegister(h) \/ TServe(h)

\* logging.config.stopListening(): abort the server _listener names
stopListening ==
    IF glistener # "none"
    THEN /\ threads' = [threads EXCEPT ![glistener].abort = TRUE]
         /\ glistener' = "none"
    ELSE UNCHANGED <<threads, glistener>>

\* stop_listen(handle), line 104
StopCall(h) ==
    /\ main = "running"
    /\ stopper.pc = "idle"
    /\ h \in held
    /\ stopListening
    /\ stopper' = [pc |-> "join", handle |-> h]
    /\ UNCHANGED <<heapVars, resolveVars, sendVars, listenVars, hooks, held, returned, main>>

\* stop_listen(handle), line 105: join returns when the thread has ended
StopJoin ==
    /\ stopper.pc = "join"
    /\ threads[stopper.handle].state = "dead"
    /\ stopper' = NoStop
    /\ returned' = returned \cup {stopper.handle}
    /\ UNCHANGED <<heapVars, resolveVars, sendVars, listenVars, threads, glistener, hooks,
                   held, main>>

\* the main thread ends
Exit ==
    /\ main = "running"
    /\ stopper.pc = "idle"
    /\ main' = "exiting"
    /\ UNCHANGED <<heapVars, resolveVars, sendVars, listenVars, threads, glistener, hooks,
                   held, stopper, returned>>

\* the interpreter waits for the listener threads, which are not daemon
\* threads, and then runs the hooks of line 98, the last registered first
ExitHook ==
    /\ main = "exiting"
    /\ stopper.pc = "idle"
    /\ hooks # << >>
    /\ \A h \in Handles : threads[h].state \in {"new", "dead"}
    /\ stopListening
    /\ stopper' = [pc |-> "join", handle |-> hooks[Len(hooks)]]
    /\ hooks' = SubSeq(hooks, 1, Len(hooks) - 1)
    /\ UNCHANGED <<heapVars, resolveVars, sendVars, listenVars, held, returned, main>>

\* a process whose root logger is at WARNING, or at INFO after
\* logging.basicConfig(level=logging.INFO)
InitStop ==
    /\ StopIdle
    /\ HeapIdle
    /\ ResolveIdle
    /\ SendIdle
    /\ environ = [kind |-> "none"]
    /\ engine \in {FreshEngine, [FreshEngine EXCEPT !.loggers[""].level = "INFO"]}
    /\ lstate = "off"
    /\ conns = [c \in Conns |-> IdleConn]
    /\ applied = NoApply
    /\ setups = 0

NextStop ==
    \/ \E h \in Handles, p \in ListenPorts : SListen(h, p)
    \/ \E h \in Handles : TBind(h)
    \/ \E h \in Handles : TRegister(h)
    \/ \E h \in Handles : TServe(h)
    \/ \E h \in Handles : StopCall(h)
    \/ StopJoin
    \/ Exit
    \/ ExitHook

SpecStop == InitStop /\ [][NextStop]_vars

\* the threads are scheduled: a listener thread that can take a step does,
\* and so does a join whose thread has ended
SpecStopFair ==
    SpecStop /\ WF_vars(StopJoin) /\ \A h \in Handles : WF_vars(Thread(h))

\* C8: a stop_listen call on a handle listen returned comes back, and the
\* thread of a handle for which it came back has ended.
C8_StopReturns ==
    /\ (stopper.pc = "join") ~> (stopper.pc = "idle")
    /\ [](\A h \in returned : threads[h].state = "dead")

----------------------------------------------------------------------------
(* C11 *)

\* the loggers of the source mapping
SourceLoggers == GetOr(SourceMap, "loggers", EmptyDict)

\* the handlers of the resolved document that are not the disabled sentinel
EnabledHandlers ==
    {h \in DOMAIN resolved.config["handlers"] :
        resolved.config["handlers"][h] # NoneV}

\* C11: when the source names no logger '' or 'root', the resolved document
\* has a logger 'root' at default_log_level (DEBUG without one) whose handler
\* list holds, once each, exactly the handlers of the resolved document that
\* are not None, and the source's other loggers as given; when the source
\* names '' or 'root', the loggers are the source's.
C11_InjectedRoot ==
    resolved.kind = "ok" =>
        LET loggers == resolved.config["loggers"]
        IN  IF "" \in DOMAIN SourceLoggers \/ "root" \in DOMAIN SourceLoggers
            THEN loggers = SourceLoggers
            ELSE /\ DOMAIN loggers = DOMAIN SourceLoggers \cup {"root"}
                 /\ \A n \in DOMAIN SourceLoggers : loggers[n] = SourceLoggers[n]
                 /\ loggers["root"].level = GetOr(SourceMap, "default_log_level", "DEBUG")
                 /\ {loggers["root"].handlers[i] :
                        i \in 1..Len(loggers["root"].handlers)} = EnabledHandlers
                 /\ Len(loggers["root"].handlers) = Cardinality(EnabledHandlers)

\* a source with default_log_level, a disabled handler of its own and no
\* console entry was resolved: the injected root logger is attached to the
\* injected console handler and not to the disabled one
C11_Witness ==
    /\ resolved.kind = "ok"
    /\ source.kind = "dict"
    /\ ~ Has(SourceLoggers, "") /\ ~ Has(SourceLoggers, "root")
    /\ Has(SourceMap, "default_log_level")
    /\ Has(SourceMap, "handlers")
    /\ SourceMap["handlers"] # NoneV
    /\ ~ Has(SourceMap["handlers"], "console")
    /\ \E h \in DOMAIN SourceMap["handlers"] : SourceMap["handlers"][h] = NoneV
    /\ resolved.config["loggers"]["root"] = [level |-> "INFO", handlers |-> <<"console">>]

----------------------------------------------------------------------------
(* C12 *)

\* C12: the mapping a caller handed to setup_logging, update_config or
\* _get_config has the keys and values it had before the call, no document
\* returned is the caller's mapping itself, and two successive calls return
\* two different documents.
C12_SourceUntouched ==
    /\ callerMap.now = callerMap.given
    /\ \A i \in 1..Len(docs) : docs[i] # "arg"
    /\ Len(docs) = 2 => docs[1] # docs[2]

----------------------------------------------------------------------------
(* C13 *)

\* the keys of a document that are this package's, not the engine's
ExtensionKeys ==
    {"show_warnings", "sentry_config", "tracemalloc", "listen",
     "default_log_format", "default_log_level"}

\* C13: a document handed to dictConfig, by setup_logging or by the
\* listener's handler for a document update_config sent, has none of the
\* extension keys.
C13_ExtensionKeysStripped ==
    applied # NoApply => DOMAIN applied.config \cap ExtensionKeys = {}

====
